---- MODULE Spec2Model ----
(***************************************************************************)
(* Booking core of nerd-society: slot availability, booking creation and   *)
(* the admin status endpoint, as a state machine over the booking table.   *)
(*                                                                         *)
(* Instants (JS Date values) are minutes since the epoch, in UTC.  A time  *)
(* string "HH:MM" is the tuple of its four digit characters (the colon is  *)
(* at the same place in every such string); the database compares these    *)
(* strings lexicographically, the route parses them to minutes.            *)
(***************************************************************************)
EXTENDS Integers, Sequences, FiniteSets, TLC

VARIABLES
    bookings,   \* the booking table, in insertion order; id = position
    payments,   \* the payment table
    now,        \* the server clock (new Date())
    tz,         \* the server's time-zone offset from UTC, in minutes
    history     \* per booking, the statuses it has gone through, oldest first

vars == <<bookings, payments, now, tz, history>>

\* The admin area's route guard for staff users.
VARIABLES
    permissions,    \* the stored staff permissions (getStaffPermissions)
    pathname,       \* the pathname of the last staff request, as its segments
    allowed         \* what isRouteAllowedForStaff answered for it

routeVars == <<permissions, pathname, allowed>>

\* The admin back-office's locations and rooms.
VARIABLES
    locations,      \* the ids of the stored locations
    rooms           \* the stored rooms: room id -> the room's locationId

adminVars == <<locations, rooms>>

\* The booking form's list of time slots, while generateTimeSlots builds it.
VARIABLES
    timeStep,       \* the step argument
    hour,           \* the outer loop's hour
    minute,         \* the inner loop's minute
    slots,          \* the slots pushed so far
    slotsDone       \* TRUE once the function has returned

formVars == <<timeStep, hour, minute, slots, slotsDone>>

\* The create requests the server is handling at the same time.
VARIABLES
    inflight        \* per handler: its request, how far it got, its response

raceVars == <<inflight>>

\* The booking wizard of the public site.
VARIABLES
    currentStep,        \* 1 location, 2 service, 3 room, 4 booking form
    selectedLocation,   \* Null or the chosen location id
    selectedService,    \* Null or the chosen service
    selectedRoom        \* Null or the chosen room

wizardVars == <<currentStep, selectedLocation, selectedService, selectedRoom>>

\* The admin calendar of one day.
VARIABLES
    calendarBookings,   \* the bookings prop: the bookings fetched by the page
    selectedDate,       \* the day shown, as the browser formats it
    browserTz           \* minutes the browser's zone is ahead of UTC

calendarVars == <<calendarBookings, selectedDate, browserTz>>

\* The state outside the booking tables.
otherVars == <<routeVars, adminVars, formVars, raceVars, wizardVars, calendarVars>>

allVars == <<vars, otherVars>>

-----------------------------------------------------------------------------
(* Bounds of the exploration *)

MaxBookings == 2
MaxUpdates == 1
MaxTicks == 1
MaxLifecycleBookings == 1
MaxLifecycleUpdates == 4
MaxLifecycleTicks == 2

-----------------------------------------------------------------------------
(* Optional values: null is the empty tuple *)

Null == <<>>
Some(v) == <<v>>

DayMinutes == 24 * 60

-----------------------------------------------------------------------------
(* Time strings *)

T(h1, h2, m1, m2) == <<h1, h2, m1, m2>>

\* String order of the database on equal-length strings of characters.
RECURSIVE StrLtFrom(_, _, _)
StrLtFrom(a, b, i) ==
    IF i > Len(a) \/ i > Len(b) THEN Len(a) < Len(b)
    ELSE IF a[i] # b[i] THEN a[i] < b[i]
    ELSE StrLtFrom(a, b, i + 1)

StrLt(a, b) == StrLtFrom(a, b, 1)
StrLte(a, b) == a = b \/ StrLt(a, b)
StrGt(a, b) == StrLt(b, a)
StrGte(a, b) == StrLte(b, a)

TimeHours(time) == time[1] * 10 + time[2]
TimeMinutes(time) == time[3] * 10 + time[4]

parseTimeToMinutes(time) == TimeHours(time) * 60 + TimeMinutes(time)

calculateDuration(startTime, endTime) ==
    parseTimeToMinutes(endTime) - parseTimeToMinutes(startTime)

OPERATING_HOURS == [open |-> T(0, 8, 0, 0), close |-> T(2, 2, 0, 0)]

\* Date.prototype.setHours(h, m, 0, 0): the same local calendar day, at h:m local.
SetHours(instant, h, m) ==
    ((instant + tz) \div DayMinutes) * DayMinutes + h * 60 + m - tz

getBookingDateTime(date, time) ==
    SetHours(date, TimeHours(time), TimeMinutes(time))

-----------------------------------------------------------------------------
(* Request dates: the string the client sends, and new Date(string) *)

DateYmd(d) == [kind |-> "ymd", day |-> d]
DateMissing == [kind |-> "missing", day |-> 0]
DateInvalid == [kind |-> "invalid", day |-> 0]

DateIsValid(dateStr) == dateStr.kind = "ymd"

\* new Date("yyyy-MM-dd") is UTC midnight of that day.
ParseDate(dateStr) == dateStr.day * DayMinutes

-----------------------------------------------------------------------------
(* Reference data: the room table (rooms and locations are not changed by   *)
(* the booking and status endpoints)                                        *)

RoomIds == {"r1", "r2"}
LocationIds == {"L1", "L2"}

Rooms ==
    [r \in RoomIds |->
        CASE r = "r1" -> [id |-> "r1", type |-> "POD_MONO", capacity |-> 1, locationId |-> "L1"]
          [] r = "r2" -> [id |-> "r2", type |-> "MEETING_LONG", capacity |-> 2, locationId |-> "L2"]]

BookingStatuses ==
    {"PENDING", "CONFIRMED", "IN_PROGRESS", "COMPLETED", "CANCELLED", "NO_SHOW"}
DepositStatuses == {"PENDING", "PAID_ONLINE", "PAID_CASH", "WAIVED"}

roomTypeToServiceType(roomType) ==
    CASE roomType \in {"MEETING_LONG", "MEETING_ROUND"} -> "MEETING"
      [] roomType = "POD_MONO" -> "POD_MONO"
      [] roomType = "POD_MULTI" -> "POD_MULTI"

-----------------------------------------------------------------------------
(* lib/pricing: results of the pricing functions *)

HourlyRate(serviceType) ==
    CASE serviceType = "MEETING" -> 80
      [] serviceType = "POD_MONO" -> 20
      [] serviceType = "POD_MULTI" -> 30

calculateBookingPrice(serviceType, durationMinutes, guests) ==
    (HourlyRate(serviceType) * durationMinutes * guests) \div 60

calculateDeposit(estimatedAmount) == estimatedAmount \div 2

calculateSurcharge(serviceType, actualDuration, scheduledDuration, guests) ==
    IF actualDuration > scheduledDuration
    THEN calculateBookingPrice(serviceType, actualDuration - scheduledDuration, guests)
    ELSE 0

getNerdCoinReward(serviceType) ==
    CASE serviceType = "MEETING" -> 0
      [] serviceType = "POD_MONO" -> 1
      [] serviceType = "POD_MULTI" -> 2

-----------------------------------------------------------------------------
(* The booking table *)

BookingIds == 1..Len(bookings)

BookingSet == {bookings[i] : i \in BookingIds}

InactiveStatuses == {"CANCELLED", "NO_SHOW"}

\* where: { startTime/endTime OR: [...] } of isSlotAvailable, on one row.
OverlapWhere(b, startTime, endTime) ==
    \/ StrLte(b.startTime, startTime) /\ StrGt(b.endTime, startTime)
    \/ StrLt(b.startTime, endTime) /\ StrGte(b.endTime, endTime)
    \/ StrGte(b.startTime, startTime) /\ StrLte(b.endTime, endTime)

\* The rows prisma.booking.findFirst of isSlotAvailable can return.
ConflictingBookings(roomId, bookingDate, startTime, endTime) ==
    {b \in BookingSet :
        /\ b.roomId = roomId
        /\ b.date = bookingDate
        /\ b.status \notin InactiveStatuses
        /\ OverlapWhere(b, startTime, endTime)}

\* bookingDate.setHours(0, 0, 0, 0)
NormalizeDate(date) == SetHours(date, 0, 0)

isSlotAvailable(roomId, date, startTime, endTime) ==
    ConflictingBookings(roomId, NormalizeDate(date), startTime, endTime) = {}

\* The rows of getBookedSlots(roomId, dateStr): the date is UTC midnight.
getBookedSlots(roomId, dateStr) ==
    {b \in BookingSet :
        /\ b.roomId = roomId
        /\ b.date = ParseDate(dateStr)
        /\ b.status \notin InactiveStatuses}

\* format(date, 'yyyyMMdd'): the local calendar day of the instant.
FormatYmd(date) == (date + tz) \div DayMinutes

DigitChars == <<"0", "1", "2", "3", "4", "5", "6", "7", "8", "9">>

\* (n).toString() of a natural number, as the sequence of its digit characters.
RECURSIVE NumberToString(_)
NumberToString(n) ==
    IF n < 10 THEN <<DigitChars[n + 1]>>
    ELSE NumberToString(n \div 10) \o <<DigitChars[(n % 10) + 1]>>

\* str.padStart(targetLength, padChar)
RECURSIVE PadStart(_, _, _)
PadStart(str, targetLength, padChar) ==
    IF Len(str) >= targetLength THEN str
    ELSE PadStart(<<padChar>> \o str, targetLength, padChar)

\* A code that numbers the bookings of all dates together.
generateBookingCodeCountingAll(date) ==
    LET prefix == FormatYmd(date)
        count == Cardinality(BookingIds)
    IN  <<prefix, PadStart(NumberToString(count + 1), 3, "0")>>

\* NERD-<yyyyMMdd>-<suffix>, as <<day, suffix>>.
generateBookingCode(date) ==
    LET prefix == FormatYmd(date)
        count == Cardinality({i \in BookingIds : bookings[i].bookingCode[1] = prefix})
    IN  <<prefix, PadStart(NumberToString(count + 1), 3, "0")>>

-----------------------------------------------------------------------------
(* POST /api/booking/create *)

Digits == {"0", "1", "2", "3", "4", "5", "6", "7", "8", "9"}

\* /^0\d{9}$/.test(customerPhone)
PhoneRegexTest(phone) ==
    /\ Len(phone) = 10
    /\ phone[1] = "0"
    /\ \A i \in 2..10 : phone[i] \in Digits

MissingRequiredFields(req) ==
    \/ req.roomId = ""
    \/ req.locationId = ""
    \/ req.date.kind = "missing"
    \/ req.startTime = <<>>
    \/ req.endTime = <<>>

MissingCustomerInfo(req) ==
    \/ req.customerName = ""
    \/ req.customerPhone = <<>>

\* A capacity check that lets one guest too many through.
OverCapacityOffByOne(guests, room) == guests > room.capacity + 1

OverCapacity(guests, room) == guests > room.capacity

InThePast(bookingDate, startTime) ==
    getBookingDateTime(bookingDate, startTime) < now

OutsideOperatingHours(startTime, endTime) ==
    \/ parseTimeToMinutes(startTime) < parseTimeToMinutes(OPERATING_HOURS.open)
    \/ parseTimeToMinutes(endTime) > parseTimeToMinutes(OPERATING_HOURS.close)

MinDurationMinutes == 60

TooShort(startTime, endTime) ==
    \/ calculateDuration(startTime, endTime) <= 0
    \/ calculateDuration(startTime, endTime) < MinDurationMinutes

\* The status of the first check that rejects the request, 200 when none does.
CreateCode(req) ==
    IF MissingRequiredFields(req) THEN 400
    ELSE IF MissingCustomerInfo(req) THEN 400
    ELSE IF ~PhoneRegexTest(req.customerPhone) THEN 400
    ELSE IF ~DateIsValid(req.date) THEN 400
    ELSE IF req.roomId \notin RoomIds THEN 404
    ELSE IF Rooms[req.roomId].locationId # req.locationId THEN 400
    ELSE IF OverCapacity(req.guests, Rooms[req.roomId]) THEN 400
    ELSE IF InThePast(ParseDate(req.date), req.startTime) THEN 400
    ELSE IF OutsideOperatingHours(req.startTime, req.endTime) THEN 400
    ELSE IF TooShort(req.startTime, req.endTime) THEN 400
    ELSE IF ~isSlotAvailable(req.roomId, ParseDate(req.date), req.startTime, req.endTime)
         THEN 409
    ELSE 200

\* data: { ... } of prisma.booking.create
EstimatedAmount(req) ==
    calculateBookingPrice(roomTypeToServiceType(Rooms[req.roomId].type),
                          calculateDuration(req.startTime, req.endTime), req.guests)

NewBooking(req) ==
    [id |-> Len(bookings) + 1,
     bookingCode |-> generateBookingCode(ParseDate(req.date)),
     roomId |-> req.roomId,
     locationId |-> req.locationId,
     customerPhone |-> req.customerPhone,
     date |-> ParseDate(req.date),
     startTime |-> req.startTime,
     endTime |-> req.endTime,
     guests |-> req.guests,
     estimatedAmount |-> EstimatedAmount(req),
     depositAmount |-> calculateDeposit(EstimatedAmount(req)),
     nerdCoinIssued |-> 0,
     nerdCoinIssuedAt |-> Null,
     source |-> "WEBSITE",
     status |-> "PENDING",
     depositStatus |-> "PENDING",
     actualStartTime |-> Null,
     actualEndTime |-> Null,
     actualAmount |-> Null,
     remainingAmount |-> Null]

\* A payment of twice the deposit.
NewPaymentOfDoubleDeposit(bookingId, depositAmount) ==
    [bookingId |-> bookingId, amount |-> 2 * depositAmount,
     method |-> "VNPAY", status |-> "PENDING"]

\* payment: { create: { ... } } of prisma.booking.create
NewPayment(bookingId, depositAmount) ==
    [bookingId |-> bookingId, amount |-> depositAmount,
     method |-> "VNPAY", status |-> "PENDING"]

\* A creation step that also stores the booking when the slot is taken.
CreateBookingIgnoringConflict(req) ==
    /\ UNCHANGED <<now, tz>>
    /\ IF CreateCode(req) \in {200, 409}
       THEN /\ bookings' = Append(bookings, NewBooking(req))
            /\ payments' = Append(payments, NewPayment(Len(bookings) + 1,
                                                         calculateDeposit(EstimatedAmount(req))))
            /\ history' = Append(history, <<"PENDING">>)
       ELSE UNCHANGED <<bookings, payments, history>>

\* The handler: the response is CreateCode(req); only a 200 writes.
CreateBooking(req) ==
    /\ UNCHANGED <<now, tz>>
    /\ IF CreateCode(req) = 200
       THEN /\ bookings' = Append(bookings, NewBooking(req))
            /\ payments' = Append(payments, NewPayment(Len(bookings) + 1,
                                                         calculateDeposit(EstimatedAmount(req))))
            /\ history' = Append(history, <<"PENDING">>)
       ELSE UNCHANGED <<bookings, payments, history>>

-----------------------------------------------------------------------------
(* POST /api/admin/bookings/[id]/status *)

StatusActions == {"CHECK_IN", "CHECK_OUT", "CANCEL"}

Authorized(role) == role \in {"ADMIN", "STAFF"}

\* let serviceType = 'MEETING'; if (type === 'POD_MONO') ...; if (type === 'POD_MULTI') ...
StatusServiceType(roomType) ==
    IF roomType = "POD_MULTI" THEN "POD_MULTI"
    ELSE IF roomType = "POD_MONO" THEN "POD_MONO"
    ELSE "MEETING"

\* A check-in guard that also accepts a booking already in progress.
CanCheckInAlsoInProgress(b) == b.status \in {"PENDING", "CONFIRMED", "IN_PROGRESS"}

CanCheckIn(b) == b.status \in {"PENDING", "CONFIRMED"}

\* A check-out guard that also accepts a booking that never started.
CanCheckOutAlsoPending(b) == b.status \in {"IN_PROGRESS", "PENDING"}

CanCheckOut(b) == b.status = "IN_PROGRESS"

\* A check-in that stamps nerdCoinIssuedAt whatever the reward.
CheckedInAlwaysStamped(b) ==
    LET nerdCoins == getNerdCoinReward(StatusServiceType(Rooms[b.roomId].type)) IN
    [b EXCEPT !.status = "IN_PROGRESS",
              !.actualStartTime = Some(now),
              !.nerdCoinIssued = nerdCoins,
              !.nerdCoinIssuedAt = Some(now)]

CheckedIn(b) ==
    LET nerdCoins == getNerdCoinReward(StatusServiceType(Rooms[b.roomId].type)) IN
    [b EXCEPT !.status = "IN_PROGRESS",
              !.actualStartTime = Some(now),
              !.nerdCoinIssued = nerdCoins,
              !.nerdCoinIssuedAt = IF nerdCoins > 0 THEN Some(now) ELSE Null]

IsPaid(depositStatus) == depositStatus \in {"PAID_ONLINE", "PAID_CASH"}

\* A deposit that is deducted whatever its status.
PaidDepositWhateverStatus(b) == b.depositAmount

PaidDeposit(b) == IF IsPaid(b.depositStatus) THEN b.depositAmount ELSE 0

\* differenceInMinutes(later, earlier) on whole-minute instants
differenceInMinutes(later, earlier) == later - earlier

\* A surcharge that measures the stay from the recorded check-in.
SurchargeFromCheckIn(b) ==
    LET scheduledStart == getBookingDateTime(b.date, b.startTime)
        scheduledEnd == getBookingDateTime(b.date, b.endTime)
        scheduledDuration == differenceInMinutes(scheduledEnd, scheduledStart)
        actualStart == IF b.actualStartTime # Null THEN b.actualStartTime[1] ELSE scheduledStart
        actualDuration == differenceInMinutes(now, actualStart)
    IN  calculateSurcharge(StatusServiceType(Rooms[b.roomId].type),
                           actualDuration, scheduledDuration, b.guests)

Surcharge(b) ==
    LET scheduledStart == getBookingDateTime(b.date, b.startTime)
        scheduledEnd == getBookingDateTime(b.date, b.endTime)
        scheduledDuration == differenceInMinutes(scheduledEnd, scheduledStart)
        actualDuration == differenceInMinutes(now, scheduledStart)
    IN  calculateSurcharge(StatusServiceType(Rooms[b.roomId].type),
                           actualDuration, scheduledDuration, b.guests)

CheckedOut(b) ==
    LET surcharge == Surcharge(b)
        actualAmount == b.estimatedAmount + surcharge
        remainingAmount == actualAmount - PaidDeposit(b)
    IN  [b EXCEPT !.status = "COMPLETED",
                  !.actualEndTime = Some(now),
                  !.actualAmount = Some(actualAmount),
                  !.remainingAmount = Some(remainingAmount)]

Cancelled(b) == [b EXCEPT !.status = "CANCELLED"]

\* prisma.booking.update({ where: { id }, data })
UpdateBooking(id, row) ==
    /\ bookings' = [bookings EXCEPT ![id] = row]
    /\ history' = [history EXCEPT ![id] =
                        IF row.status = bookings[id].status THEN @ ELSE Append(@, row.status)]
    /\ UNCHANGED payments

\* The status of the response; id 0 is a request without a booking id.
StatusCode(role, id, action) ==
    IF ~Authorized(role) THEN 401
    ELSE IF id = 0 THEN 400
    ELSE IF id \notin BookingIds THEN 404
    ELSE IF action = "CHECK_IN" THEN (IF CanCheckIn(bookings[id]) THEN 200 ELSE 400)
    ELSE IF action = "CHECK_OUT" THEN (IF CanCheckOut(bookings[id]) THEN 200 ELSE 400)
    ELSE IF action = "CANCEL" THEN 200
    ELSE 400

\* The row the action writes, for a request answered 200.
StatusUpdate(id, action) ==
    CASE action = "CHECK_IN" -> CheckedIn(bookings[id])
      [] action = "CHECK_OUT" -> CheckedOut(bookings[id])
      [] action = "CANCEL" -> Cancelled(bookings[id])

AdminStatus(role, id, action) ==
    /\ UNCHANGED <<now, tz>>
    /\ IF StatusCode(role, id, action) = 200
       THEN UpdateBooking(id, StatusUpdate(id, action))
       ELSE UNCHANGED <<bookings, payments, history>>

-----------------------------------------------------------------------------
(* Status changes made outside the status endpoint: the deposit being      *)
(* settled confirms a pending booking, and a booking whose customer did    *)
(* not come is marked NO_SHOW.                                             *)

DepositSettled(id, depositStatus) ==
    /\ id \in BookingIds
    /\ bookings[id].status = "PENDING"
    /\ UpdateBooking(id, [bookings[id] EXCEPT !.status = "CONFIRMED",
                                              !.depositStatus = depositStatus])
    /\ UNCHANGED <<now, tz>>

MarkNoShow(id) ==
    /\ id \in BookingIds
    /\ bookings[id].status \in {"PENDING", "CONFIRMED"}
    /\ UpdateBooking(id, [bookings[id] EXCEPT !.status = "NO_SHOW"])
    /\ UNCHANGED <<now, tz>>

-----------------------------------------------------------------------------
(* lib/staffPermissions: which admin routes a staff user may open.  A      *)
(* pathname "/a/b" is the sequence <<"a", "b">> of its segments; "/admin/" *)
(* is <<"admin", "">>.                                                     *)

PermissionKeys ==
    {"canViewDashboard", "canViewBookings", "canCreateBookings", "canEditBookings",
     "canDeleteBookings", "canCheckIn", "canCheckOut", "canViewCustomers",
     "canViewRooms", "canViewServices", "canViewLocations", "canViewPosts",
     "canViewNerdCoin", "canViewReports", "canViewSettings", "canViewStaff",
     "canViewAuditLog", "canViewEmailTemplates"}

DEFAULT_STAFF_PERMISSIONS ==
    [key \in PermissionKeys |->
        key \in {"canViewDashboard", "canViewBookings", "canCreateBookings",
                 "canEditBookings", "canCheckIn", "canCheckOut", "canViewCustomers"}]

\* The entries of the map, in the order Object.keys lists them.
PERMISSION_ROUTE_MAP ==
    << <<(<<"admin">>), "canViewDashboard">>,
       <<(<<"admin", "bookings">>), "canViewBookings">>,
       <<(<<"admin", "customers">>), "canViewCustomers">>,
       <<(<<"admin", "rooms">>), "canViewRooms">>,
       <<(<<"admin", "services">>), "canViewServices">>,
       <<(<<"admin", "combos">>), "canViewServices">>,
       <<(<<"admin", "locations">>), "canViewLocations">>,
       <<(<<"admin", "posts">>), "canViewPosts">>,
       <<(<<"admin", "gallery">>), "canViewPosts">>,
       <<(<<"admin", "media">>), "canViewPosts">>,
       <<(<<"admin", "content">>), "canViewPosts">>,
       <<(<<"admin", "nerdcoin">>), "canViewNerdCoin">>,
       <<(<<"admin", "reports">>), "canViewReports">>,
       <<(<<"admin", "settings">>), "canViewSettings">>,
       <<(<<"admin", "permissions">>), "canViewSettings">>,
       <<(<<"admin", "staff">>), "canViewStaff">>,
       <<(<<"admin", "audit-log">>), "canViewAuditLog">>,
       <<(<<"admin", "email-templates">>), "canViewEmailTemplates">> >>

RouteOf(i) == PERMISSION_ROUTE_MAP[i][1]
PermissionOf(i) == PERMISSION_ROUTE_MAP[i][2]

\* pathname === route || pathname.startsWith(route + '/')
RouteMatches(path, route) ==
    \/ path = route
    \/ Len(path) > Len(route) /\ SubSeq(path, 1, Len(route)) = route

\* Object.keys(PERMISSION_ROUTE_MAP).find(...): the index of the first entry
\* from i on whose route matches, 0 when there is none.
RECURSIVE FindMatchingRoute(_, _)
FindMatchingRoute(path, i) ==
    IF i > Len(PERMISSION_ROUTE_MAP) THEN 0
    ELSE IF RouteMatches(path, RouteOf(i)) THEN i
    ELSE FindMatchingRoute(path, i + 1)

isRouteAllowedForStaff(path, perms) ==
    LET matchingRoute == FindMatchingRoute(path, 1) IN
    IF matchingRoute = 0 THEN FALSE
    ELSE perms[PermissionOf(matchingRoute)]

\* The permission sets an admin saves: the defaults with some keys changed.
VariedKeys == {"canViewDashboard", "canViewBookings", "canViewRooms", "canViewSettings"}

PermissionSets ==
    {[key \in PermissionKeys |->
        IF key \in VariedKeys THEN key \in on ELSE DEFAULT_STAFF_PERMISSIONS[key]] :
            on \in SUBSET VariedKeys}

\* The pathnames staff request: every mapped route, a page below each, and
\* pathnames that no entry names.
UnmappedPathnames ==
    {<<"admin", "unknown">>, <<"admin", "unknown", "x">>, <<"admin", "">>,
     <<"other">>, <<"administrator">>, <<"">>, <<"admin-tools", "rooms">>}

Pathnames ==
    {RouteOf(i) : i \in 1..Len(PERMISSION_ROUTE_MAP)}
        \cup {RouteOf(i) \o <<"x">> : i \in 1..Len(PERMISSION_ROUTE_MAP)}
        \cup UnmappedPathnames

RouteInit ==
    /\ permissions = DEFAULT_STAFF_PERMISSIONS
    /\ pathname = <<>>
    /\ allowed = Null

\* An admin saves the staff permissions.
SavePermissions(perms) ==
    /\ permissions' = perms
    /\ UNCHANGED <<pathname, allowed>>
    /\ UNCHANGED <<vars, adminVars, formVars, raceVars, wizardVars, calendarVars>>

\* A staff user requests a page and the guard is asked.
StaffRequest(path) ==
    /\ pathname' = path
    /\ allowed' = Some(isRouteAllowedForStaff(path, permissions))
    /\ UNCHANGED permissions
    /\ UNCHANGED <<vars, adminVars, formVars, raceVars, wizardVars, calendarVars>>

-----------------------------------------------------------------------------
(* DELETE of a location, and the room and location edits of the admin      *)
(* pages around it.                                                        *)

AdminLocationIds == LocationIds \cup {"L3", "L4"}
AdminRoomIds == RoomIds \cup {"r3"}

\* The rooms and locations the bookings use, and a location without rooms.
AdminInit ==
    /\ locations = LocationIds \cup {"L3"}
    /\ rooms = [room \in RoomIds |-> Rooms[room].locationId]

\* prisma.room.count({ where: { locationId } })
RoomCount(locationId) == Cardinality({room \in DOMAIN rooms : rooms[room] = locationId})

\* A guard that lets a location with a single room go.
HasSeveralRooms(locationId) == RoomCount(locationId) > 1

HasRooms(locationId) == RoomCount(locationId) > 0

\* The status of the response; 500 is the catch branch, taken when
\* prisma.location.delete finds no such location.
DeleteLocationCode(role, id) ==
    IF role # "ADMIN" THEN 403
    ELSE IF HasRooms(id) THEN 400
    ELSE IF id \notin locations THEN 500
    ELSE 200

DeleteLocation(role, id) ==
    /\ locations' = IF DeleteLocationCode(role, id) = 200 THEN locations \ {id} ELSE locations
    /\ UNCHANGED rooms
    /\ UNCHANGED <<vars, routeVars, formVars, raceVars, wizardVars, calendarVars>>

\* The locations page adds a location.
CreateLocation(id) ==
    /\ id \notin locations
    /\ locations' = locations \cup {id}
    /\ UNCHANGED rooms
    /\ UNCHANGED <<vars, routeVars, formVars, raceVars, wizardVars, calendarVars>>

\* The rooms page creates a room in, or moves it to, a location of its list.
SaveRoom(room, locationId) ==
    /\ locationId \in locations
    /\ rooms' = [r \in DOMAIN rooms \cup {room} |-> IF r = room THEN locationId ELSE rooms[r]]
    /\ rooms' # rooms
    /\ UNCHANGED locations
    /\ UNCHANGED <<vars, routeVars, formVars, raceVars, wizardVars, calendarVars>>

\* The rooms page deletes a room.
DeleteRoom(room) ==
    /\ room \in DOMAIN rooms
    /\ rooms' = [r \in DOMAIN rooms \ {room} |-> rooms[r]]
    /\ UNCHANGED locations
    /\ UNCHANGED <<vars, routeVars, formVars, raceVars, wizardVars, calendarVars>>

-----------------------------------------------------------------------------
(* generateTimeSlots of the booking form: the two nested loops, one        *)
(* iteration a step.                                                       *)

\* The step of the form (30 for meeting rooms, 15 for pods) and other steps.
TimeSteps == {10, 15, 20, 30, 60}

\* `${hour.toString().padStart(2, '0')}:${minute.toString().padStart(2, '0')}`
\* for hour and minute below 100.
SlotString(h, m) == T(h \div 10, h % 10, m \div 10, m % 10)

FormInit(steps) ==
    /\ timeStep \in steps
    /\ hour = 8
    /\ minute = 0
    /\ slots = <<>>
    /\ slotsDone = FALSE

\* The inner loop's body: push the slot unless the break is taken.
PushSlot ==
    /\ ~slotsDone
    /\ hour <= 21
    /\ minute < 60
    /\ ~(hour = 21 /\ minute > 0)
    /\ slots' = Append(slots, SlotString(hour, minute))
    /\ minute' = minute + timeStep
    /\ UNCHANGED <<timeStep, hour, slotsDone>>
    /\ UNCHANGED <<vars, routeVars, adminVars, raceVars, wizardVars, calendarVars>>

\* The inner loop ends, by its condition or by the break.
NextHour ==
    /\ ~slotsDone
    /\ hour <= 21
    /\ minute >= 60 \/ (hour = 21 /\ minute > 0)
    /\ hour' = hour + 1
    /\ minute' = 0
    /\ UNCHANGED <<timeStep, slots, slotsDone>>
    /\ UNCHANGED <<vars, routeVars, adminVars, raceVars, wizardVars, calendarVars>>

\* After the loops: slots.push('22:00'); return slots
PushClosing ==
    /\ ~slotsDone
    /\ hour > 21
    /\ slots' = Append(slots, T(2, 2, 0, 0))
    /\ slotsDone' = TRUE
    /\ UNCHANGED <<timeStep, hour, minute>>
    /\ UNCHANGED <<vars, routeVars, adminVars, raceVars, wizardVars, calendarVars>>

-----------------------------------------------------------------------------
(* POST /api/booking/create handled for several requests at once: the      *)
(* handler awaits the availability query, the booking-code count and the   *)
(* insert one after the other, and another handler may run between them.   *)

Handlers == {1, 2}

MaxConcurrentBookings == 3

\* A handler that has no request yet.
Idle == [pc |-> "idle", req |-> Null, code |-> Null, status |-> 0]

RaceInit == inflight = [h \in Handlers |-> Idle]

\* The request arrives, is validated and the availability query is answered:
\* lines 57-178.  A request that fails is answered at once.
CheckAvailability(h, req) ==
    /\ inflight[h].pc \in {"idle", "done"}
    /\ Len(bookings) < MaxConcurrentBookings
    /\ inflight' = [inflight EXCEPT ![h] =
            IF CreateCode(req) = 200
            THEN [pc |-> "available", req |-> Some(req), code |-> Null, status |-> 0]
            ELSE [pc |-> "done", req |-> Some(req), code |-> Null, status |-> CreateCode(req)]]
    /\ UNCHANGED <<vars, routeVars, adminVars, formVars, wizardVars, calendarVars>>

\* generateBookingCode: the count of line 188.
CountBookingCodes(h) ==
    /\ inflight[h].pc = "available"
    /\ inflight' = [inflight EXCEPT ![h] =
            [@ EXCEPT !.pc = "coded",
                      !.code = Some(generateBookingCode(ParseDate(inflight[h].req[1].date)))]]
    /\ UNCHANGED <<vars, routeVars, adminVars, formVars, wizardVars, calendarVars>>

\* prisma.booking.create of lines 194-239.  `unique` says whether the
\* database refuses a bookingCode that is stored already; the insert then
\* throws and the catch branch answers 500.
InsertBooking(h, unique) ==
    LET req == inflight[h].req[1]
        code == inflight[h].code[1]
        taken == \E b \in BookingSet : b.bookingCode = code
    IN  /\ inflight[h].pc = "coded"
        /\ IF unique /\ taken
           THEN /\ inflight' = [inflight EXCEPT ![h] = [@ EXCEPT !.pc = "done", !.status = 500]]
                /\ UNCHANGED <<bookings, payments, history>>
           ELSE /\ inflight' = [inflight EXCEPT ![h] = [@ EXCEPT !.pc = "done", !.status = 200]]
                /\ bookings' = Append(bookings, [NewBooking(req) EXCEPT !.bookingCode = code])
                /\ payments' = Append(payments, NewPayment(Len(bookings) + 1,
                                                             calculateDeposit(EstimatedAmount(req))))
                /\ history' = Append(history, <<"PENDING">>)
        /\ UNCHANGED <<now, tz>>
        /\ UNCHANGED <<routeVars, adminVars, formVars, wizardVars, calendarVars>>

-----------------------------------------------------------------------------
(* BookingWizardV2: each step renders one selector, so a handler can only  *)
(* be called at the step whose selector it is wired to; the back button is *)
(* rendered at steps 2, 3 and 4.                                           *)

WizardLocations == {"L1", "L2", "L3"}
WizardServices == {"MEETING", "POD_MONO", "POD_MULTI"}
WizardRooms == {"r1", "r2", "r3"}

WizardInit ==
    /\ currentStep = 1
    /\ selectedLocation = Null
    /\ selectedService = Null
    /\ selectedRoom = Null

\* The location handler without the reset of the room.
handleLocationSelectKeepingRoom(id) ==
    /\ currentStep = 1
    /\ selectedLocation' = Some(id)
    /\ currentStep' = 2
    /\ UNCHANGED <<selectedService, selectedRoom>>
    /\ UNCHANGED <<vars, routeVars, adminVars, formVars, raceVars, calendarVars>>

\* onSelect of the LocationSelector, rendered at step 1.
handleLocationSelect(id) ==
    /\ currentStep = 1
    /\ selectedLocation' = Some(id)
    /\ selectedRoom' = Null
    /\ currentStep' = 2
    /\ UNCHANGED selectedService
    /\ UNCHANGED <<vars, routeVars, adminVars, formVars, raceVars, calendarVars>>

\* onSelect of the ServiceSelector, rendered at step 2.
handleServiceSelect(service) ==
    /\ currentStep = 2
    /\ selectedService' = Some(service)
    /\ selectedRoom' = Null
    /\ currentStep' = 3
    /\ UNCHANGED selectedLocation
    /\ UNCHANGED <<vars, routeVars, adminVars, formVars, raceVars, calendarVars>>

\* onSelect of the RoomSelector, rendered at step 3.
handleRoomSelect(room) ==
    /\ currentStep = 3
    /\ selectedRoom' = Some(room)
    /\ currentStep' = 4
    /\ UNCHANGED <<selectedLocation, selectedService>>
    /\ UNCHANGED <<vars, routeVars, adminVars, formVars, raceVars, calendarVars>>

\* The back button.  At step 4 it is rendered with the form only, that is
\* when a room and a service are selected.
goBack ==
    /\ currentStep \in {2, 3, 4}
    /\ currentStep = 4 => (selectedRoom # Null /\ selectedService # Null)
    /\ currentStep' = (IF currentStep > 1 THEN currentStep - 1 ELSE currentStep)
    /\ UNCHANGED <<selectedLocation, selectedService, selectedRoom>>
    /\ UNCHANGED <<vars, routeVars, adminVars, formVars, raceVars, calendarVars>>

-----------------------------------------------------------------------------
(* BookingCalendarView: a grid of one row per hour and one column per room *)

\* The rooms prop, by name.
CalendarRooms == {"Pod 1", "Pod 2"}

MaxCalendarBookings == 2
CalendarDays == 1..3

CalendarInit(zones) ==
    /\ calendarBookings = <<>>
    /\ selectedDate = 2
    /\ browserTz \in zones

\* The rows the page can be handed: a room, a stored date, a start the
\* booking form offers and an end at least an hour later.
CalendarBookingRows ==
    {[room |-> r, date |-> d * DayMinutes, startTime |-> rg[1], endTime |-> rg[2],
      status |-> st] :
        r \in CalendarRooms, d \in {2, 3},
        rg \in {<<T(0, 9, 0, 0), T(1, 0, 0, 0)>>, <<T(0, 9, 0, 0), T(1, 1, 0, 0)>>,
                <<T(0, 9, 3, 0), T(1, 0, 3, 0)>>, <<T(1, 0, 0, 0), T(1, 1, 0, 0)>>,
                <<T(1, 0, 1, 5), T(1, 1, 1, 5)>>},
        st \in {"CONFIRMED", "CANCELLED"}}

\* The page hands the calendar one more booking.
ReceiveBooking(b) ==
    /\ Len(calendarBookings) < MaxCalendarBookings
    /\ calendarBookings' = Append(calendarBookings, b)
    /\ UNCHANGED <<selectedDate, browserTz>>
    /\ UNCHANGED <<vars, routeVars, adminVars, formVars, raceVars, wizardVars>>

prevDay ==
    /\ selectedDate - 1 \in CalendarDays
    /\ selectedDate' = selectedDate - 1
    /\ UNCHANGED <<calendarBookings, browserTz>>
    /\ UNCHANGED <<vars, routeVars, adminVars, formVars, raceVars, wizardVars>>

nextDay ==
    /\ selectedDate + 1 \in CalendarDays
    /\ selectedDate' = selectedDate + 1
    /\ UNCHANGED <<calendarBookings, browserTz>>
    /\ UNCHANGED <<vars, routeVars, adminVars, formVars, raceVars, wizardVars>>

\* The rows of the grid: 08:00, 09:00, ..., 22:00.
calendarTimeSlots == [k \in 1..15 |-> SlotString(7 + k, 0)]

timeToMinutes(time) == TimeHours(time) * 60 + TimeMinutes(time)

\* format(new Date(b.date), 'yyyy-MM-dd') in the browser.
BrowserFormatYmd(date) == (date + browserTz) \div DayMinutes

\* The positions of calendarBookings that pass the filter, in list order.
dayBookings ==
    SelectSeq([i \in 1..Len(calendarBookings) |-> i],
              LAMBDA i : BrowserFormatYmd(calendarBookings[i].date) = selectedDate)

\* Whether booking i covers the slot of the room.
CoversSlot(i, roomName, timeSlot) ==
    /\ calendarBookings[i].room = roomName
    /\ timeToMinutes(timeSlot) >= timeToMinutes(calendarBookings[i].startTime)
    /\ timeToMinutes(timeSlot) < timeToMinutes(calendarBookings[i].endTime)

\* find: the first of dayBookings that covers the slot, or nothing.
getBookingAt(roomName, timeSlot) ==
    LET hits == SelectSeq(dayBookings, LAMBDA i : CoversSlot(i, roomName, timeSlot))
    IN  IF hits = <<>> THEN Null ELSE Some(hits[1])

isBookingStart(roomName, timeSlot) ==
    \E k \in 1..Len(dayBookings) :
        /\ calendarBookings[dayBookings[k]].room = roomName
        /\ calendarBookings[dayBookings[k]].startTime = timeSlot

\* The block drawn in the cell of a room and a row: Null when none is.
RenderedBlock(roomName, timeSlot) ==
    IF getBookingAt(roomName, timeSlot) # Null /\ isBookingStart(roomName, timeSlot)
    THEN getBookingAt(roomName, timeSlot)
    ELSE Null

-----------------------------------------------------------------------------
(* The clock *)

ClockStep == 8 * 60
StartNow == 11 * 60 + 40

Tick(maxTicks) ==
    /\ now + ClockStep <= StartNow + maxTicks * ClockStep
    /\ now' = now + ClockStep
    /\ UNCHANGED <<bookings, payments, tz, history>>
    /\ UNCHANGED otherVars

-----------------------------------------------------------------------------
(* Requests the model sends *)

TzOffsets == {-300, 0, 420}

ReqDays == {1, 2}
ReqRoomDays == {<<"r1", 1>>, <<"r1", 2>>, <<"r2", 1>>}
ReqRanges ==
    {<<T(0, 8, 0, 0), T(1, 0, 0, 0)>>,
     <<T(0, 9, 0, 0), T(1, 1, 0, 0)>>,
     <<T(1, 0, 0, 0), T(1, 1, 0, 0)>>,
     <<T(0, 7, 0, 0), T(0, 9, 0, 0)>>,
     <<T(2, 1, 0, 0), T(2, 3, 0, 0)>>,
     <<T(0, 9, 0, 0), T(0, 9, 3, 0)>>,
     <<T(1, 0, 0, 0), T(0, 9, 0, 0)>>}
ReqGuests == {1, 3}
ValidPhone == <<"0", "9", "1", "2", "3", "4", "5", "6", "7", "8">>
BadPhones ==
    {<<"1", "9", "1", "2", "3", "4", "5", "6", "7", "8">>,
     <<"0", "9", "1", "2", "3", "4", "5", "6", "7">>,
     <<"0", "9", "1", "2", "3", "4", "5", "6", "7", "x">>,
     <<"0", "9", "1", "2", "3", "4", "5", "6", "7", "8", "9">>}
Roles == {"ADMIN", "STAFF", "CUSTOMER", "NONE"}
ReqActions == StatusActions \cup {"NO_SHOW"}

\* Requests with every field present and well formed.
WellFormedRequests ==
    {[roomId |-> r, locationId |-> l, date |-> DateYmd(d),
      startTime |-> rg[1], endTime |-> rg[2], guests |-> g,
      customerName |-> "An", customerPhone |-> ValidPhone] :
        r \in RoomIds, l \in LocationIds, d \in ReqDays, rg \in ReqRanges, g \in ReqGuests}

Requests == {req \in WellFormedRequests : <<req.roomId, req.date.day>> \in ReqRoomDays}

BaseRequest ==
    [roomId |-> "r1", locationId |-> "L1", date |-> DateYmd(2),
     startTime |-> T(0, 9, 0, 0), endTime |-> T(1, 1, 0, 0), guests |-> 1,
     customerName |-> "An", customerPhone |-> ValidPhone]

\* Requests with one field missing or malformed.
MalformedRequests ==
    {[BaseRequest EXCEPT !.roomId = ""], [BaseRequest EXCEPT !.roomId = "r9"],
     [BaseRequest EXCEPT !.locationId = ""],
     [BaseRequest EXCEPT !.date = DateMissing], [BaseRequest EXCEPT !.date = DateInvalid],
     [BaseRequest EXCEPT !.startTime = <<>>], [BaseRequest EXCEPT !.endTime = <<>>],
     [BaseRequest EXCEPT !.customerName = ""], [BaseRequest EXCEPT !.customerPhone = <<>>]}
    \cup {[BaseRequest EXCEPT !.customerPhone = p] : p \in BadPhones}

CreateRequests == Requests \cup MalformedRequests

\* The requests of the lifecycle exploration: one time range per room and day.
LifecycleRequests ==
    {req \in Requests :
        req.startTime = T(0, 9, 0, 0) /\ req.endTime = T(1, 1, 0, 0)}
    \cup MalformedRequests

\* Requests for one room and day: two overlapping ranges and one beside them.
ConcurrentRequests ==
    {[BaseRequest EXCEPT !.startTime = rg[1], !.endTime = rg[2]] :
        rg \in {<<T(0, 8, 0, 0), T(1, 0, 0, 0)>>, <<T(0, 9, 0, 0), T(1, 1, 0, 0)>>,
                <<T(1, 0, 0, 0), T(1, 1, 0, 0)>>}}

\* The booking tables empty, at the start of the clock.
BookingInit ==
    /\ bookings = <<>>
    /\ payments = <<>>
    /\ history = <<>>
    /\ now = StartNow

Init ==
    /\ BookingInit
    /\ tz \in TzOffsets
    /\ RouteInit
    /\ AdminInit
    /\ FormInit({30})
    /\ RaceInit
    /\ WizardInit
    /\ CalendarInit({0})

\* Writes to existing bookings so far.
RECURSIVE UpdatesFrom(_)
UpdatesFrom(i) ==
    IF i > Len(history) THEN 0 ELSE (Len(history[i]) - 1) + UpdatesFrom(i + 1)

Updates == UpdatesFrom(1)

CreateStep(maxBookings, requests) ==
    /\ Len(bookings) < maxBookings
    /\ \E req \in requests : CreateBooking(req)
    /\ UNCHANGED otherVars

StatusStep(maxBookings, maxUpdates) ==
    /\ Updates < maxUpdates
    /\ \E role \in Roles, id \in 0..(maxBookings + 1), action \in ReqActions :
            AdminStatus(role, id, action)
    /\ UNCHANGED otherVars

DepositStep(maxBookings, maxUpdates) ==
    /\ Updates < maxUpdates
    /\ \E id \in 1..maxBookings, ds \in DepositStatuses \ {"PENDING"} :
            DepositSettled(id, ds)
    /\ UNCHANGED otherVars

NoShowStep(maxBookings, maxUpdates) ==
    /\ Updates < maxUpdates
    /\ \E id \in 1..maxBookings : MarkNoShow(id)
    /\ UNCHANGED otherVars

\* Bookings of every room, day and time range, created, updated and cancelled.
Next ==
    \/ CreateStep(MaxBookings, CreateRequests)
    \/ StatusStep(MaxBookings, MaxUpdates)
    \/ DepositStep(MaxBookings, MaxUpdates)
    \/ NoShowStep(MaxBookings, MaxUpdates)
    \/ Tick(MaxTicks)

Spec == Init /\ [][Next]_vars

\* The whole life of a booking, for one time range per room and day.
NextLifecycle ==
    \/ CreateStep(MaxLifecycleBookings, LifecycleRequests)
    \/ StatusStep(MaxLifecycleBookings, MaxLifecycleUpdates)
    \/ DepositStep(MaxLifecycleBookings, MaxLifecycleUpdates)
    \/ NoShowStep(MaxLifecycleBookings, MaxLifecycleUpdates)
    \/ Tick(MaxLifecycleTicks)

SpecLifecycle == Init /\ [][NextLifecycle]_vars

\* The same, with the two endpoints of the source alone.
NextEndpoints ==
    \/ CreateStep(MaxLifecycleBookings, LifecycleRequests)
    \/ StatusStep(MaxLifecycleBookings, MaxLifecycleUpdates)
    \/ Tick(MaxLifecycleTicks)

SpecEndpoints == Init /\ [][NextEndpoints]_vars

\* Every component at its start, with the server in UTC.
InitUtc ==
    /\ BookingInit
    /\ tz = 0
    /\ RouteInit
    /\ AdminInit
    /\ FormInit({30})
    /\ RaceInit
    /\ WizardInit
    /\ CalendarInit({0})

\* The same, with the booking form called for any of its step arguments.
InitTimeSlots ==
    /\ BookingInit
    /\ tz = 0
    /\ RouteInit
    /\ AdminInit
    /\ FormInit(TimeSteps)
    /\ RaceInit
    /\ WizardInit
    /\ CalendarInit({0})

\* The route guard alone: permissions saved, pages requested.
NextRoutes ==
    \/ \E perms \in PermissionSets : SavePermissions(perms)
    \/ \E path \in Pathnames : StaffRequest(path)

SpecRoutes == InitUtc /\ [][NextRoutes]_allVars

\* generateTimeSlots alone, one loop iteration a step, for each step argument.
NextTimeSlots ==
    \/ PushSlot
    \/ NextHour
    \/ PushClosing

SpecTimeSlots == InitTimeSlots /\ [][NextTimeSlots]_allVars

\* Create requests handled concurrently, with the server in UTC.
NextConcurrent ==
    \/ \E h \in Handlers, req \in ConcurrentRequests : CheckAvailability(h, req)
    \/ \E h \in Handlers : CountBookingCodes(h)
    \/ \E h \in Handlers, unique \in BOOLEAN : InsertBooking(h, unique)

SpecConcurrent == InitUtc /\ [][NextConcurrent]_allVars

\* The booking wizard alone.
NextWizard ==
    \/ \E id \in WizardLocations : handleLocationSelect(id)
    \/ \E service \in WizardServices : handleServiceSelect(service)
    \/ \E room \in WizardRooms : handleRoomSelect(room)
    \/ goBack

SpecWizard == InitUtc /\ [][NextWizard]_allVars

\* The admin calendar alone, in a browser of any zone.
InitCalendar ==
    /\ BookingInit
    /\ tz = 0
    /\ RouteInit
    /\ AdminInit
    /\ FormInit({30})
    /\ RaceInit
    /\ WizardInit
    /\ CalendarInit(TzOffsets)

NextCalendar ==
    \/ \E b \in CalendarBookingRows : ReceiveBooking(b)
    \/ prevDay
    \/ nextDay

SpecCalendar == InitCalendar /\ [][NextCalendar]_allVars

\* The back-office alone: locations and rooms created, moved and deleted.
NextLocations ==
    \/ \E role \in Roles, id \in AdminLocationIds : DeleteLocation(role, id)
    \/ \E id \in AdminLocationIds : CreateLocation(id)
    \/ \E room \in AdminRoomIds, id \in AdminLocationIds : SaveRoom(room, id)
    \/ \E room \in AdminRoomIds : DeleteRoom(room)

SpecLocations == InitUtc /\ [][NextLocations]_allVars

-----------------------------------------------------------------------------
(* Properties of slot availability *)

Active(b) == b.status \notin {"CANCELLED", "NO_SHOW"}

\* Interval overlap of two time ranges, on the minutes of their times.
Overlaps(s1, e1, s2, e2) ==
    /\ parseTimeToMinutes(s1) < parseTimeToMinutes(e2)
    /\ parseTimeToMinutes(e1) > parseTimeToMinutes(s2)

\* The times the properties ask about: the request times and times between
\* and around them.
QueryTimes ==
    {T(0, 7, 0, 0), T(0, 8, 0, 0), T(0, 8, 3, 0), T(0, 9, 0, 0), T(0, 9, 3, 0),
     T(1, 0, 0, 0), T(1, 0, 3, 0), T(1, 1, 0, 0), T(1, 2, 0, 0), T(2, 2, 0, 0),
     T(2, 3, 0, 0)}

QueryRanges ==
    {r \in QueryTimes \X QueryTimes : parseTimeToMinutes(r[1]) < parseTimeToMinutes(r[2])}

\* C1: no two stored bookings of the same room and date, both with a status
\* outside CANCELLED and NO_SHOW, have overlapping time ranges.
C1_NoDoubleBooking ==
    \A i \in BookingIds, j \in BookingIds :
        (/\ i # j
         /\ bookings[i].roomId = bookings[j].roomId
         /\ bookings[i].date = bookings[j].date
         /\ Active(bookings[i])
         /\ Active(bookings[j]))
        => ~Overlaps(bookings[i].startTime, bookings[i].endTime,
                     bookings[j].startTime, bookings[j].endTime)

\* The stored bookings that count against a range: active, of the room,
\* stored under `storedDate`, and overlapping the range in the interval sense.
OverlappingBookings(room, storedDate, startTime, endTime) ==
    {b \in BookingSet :
        /\ b.roomId = room
        /\ b.date = storedDate
        /\ Active(b)
        /\ Overlaps(startTime, endTime, b.startTime, b.endTime)}

\* C2: for every room, date and range with start < end, isSlotAvailable is
\* false exactly when an active stored booking of that room and date overlaps
\* the range in the interval sense; ranges that only touch do not conflict.
C2_OverlapQueryIsIntervalOverlap ==
    \A room \in RoomIds, day \in ReqDays, r \in QueryRanges :
        LET date == ParseDate(DateYmd(day)) IN
        isSlotAvailable(room, date, r[1], r[2])
            = (OverlappingBookings(room, date, r[1], r[2]) = {})

\* The three branches of the query are the interval overlap: the equivalence
\* holds with the bookings stored under the date the query looks up.
OverlapQueryIsIntervalOverlapAtQueriedDate ==
    \A room \in RoomIds, day \in ReqDays, r \in QueryRanges :
        LET date == ParseDate(DateYmd(day)) IN
        isSlotAvailable(room, date, r[1], r[2])
            = (OverlappingBookings(room, NormalizeDate(date), r[1], r[2]) = {})

\* C3: whenever getBookedSlots(room, day) reports a slot, isSlotAvailable is
\* false for every range of that room and day that overlaps the slot.
C3_AvailabilityAgreesWithBookedSlots ==
    \A room \in RoomIds, day \in ReqDays :
        \A b \in getBookedSlots(room, DateYmd(day)), r \in QueryRanges :
            Overlaps(r[1], r[2], b.startTime, b.endTime)
                => ~isSlotAvailable(room, ParseDate(DateYmd(day)), r[1], r[2])

\* With the server in UTC the lookups use the same date, and all three hold.
NoDoubleBookingInUtc == tz = 0 => C1_NoDoubleBooking
OverlapQueryIsIntervalOverlapInUtc == tz = 0 => C2_OverlapQueryIsIntervalOverlap
AvailabilityAgreesInUtc == tz = 0 => C3_AvailabilityAgreesWithBookedSlots

-----------------------------------------------------------------------------
(* Properties of the status endpoint *)

Staff == {role \in Roles : role \in {"ADMIN", "STAFF"}}

\* The response specified for an authorized request on an existing booking.
C4_ExpectedCode(status, action) ==
    CASE action = "CHECK_IN" -> IF status \in {"PENDING", "CONFIRMED"} THEN 200 ELSE 400
      [] action = "CHECK_OUT" -> IF status = "IN_PROGRESS" THEN 200 ELSE 400
      [] action = "CANCEL" -> 200
      [] OTHER -> 400

C4_Codes ==
    \A role \in Staff, id \in BookingIds, action \in ReqActions :
        StatusCode(role, id, action) = C4_ExpectedCode(bookings[id].status, action)

C4_Effects ==
    \A role \in Staff, id \in BookingIds, action \in ReqActions :
        AdminStatus(role, id, action) =>
            LET expected == C4_ExpectedCode(bookings[id].status, action) IN
            /\ (action = "CHECK_IN" /\ expected = 200)
                    => bookings'[id].status = "IN_PROGRESS"
            /\ (action = "CHECK_OUT" /\ expected = 200)
                    => bookings'[id].status = "COMPLETED"
            /\ expected = 400 => bookings' = bookings

\* C4: CHECK_IN succeeds only from PENDING or CONFIRMED and sets IN_PROGRESS;
\* CHECK_OUT succeeds only from IN_PROGRESS and sets COMPLETED; a CHECK_IN or
\* CHECK_OUT from any other status, and any other action name than these and
\* CANCEL, is answered 400 and leaves the booking unchanged.
C4_CheckInCheckOutGuards == []C4_Codes /\ [][C4_Effects]_vars

\* A booking was checked in and checked out, and a second CHECK_OUT is refused.
C4_Witness ==
    \E id \in BookingIds :
        /\ history[id] = <<"PENDING", "CONFIRMED", "IN_PROGRESS", "COMPLETED">>
        /\ StatusCode("STAFF", id, "CHECK_OUT") = 400
        /\ StatusCode("STAFF", id, "NO_SHOW") = 400

FinalStatuses == {"COMPLETED", "CANCELLED", "NO_SHOW"}

\* C5: once a booking is COMPLETED, CANCELLED or NO_SHOW, no status action
\* changes its status again.
C5_FinalStatusesAreFinal ==
    [][\A id \in BookingIds :
            bookings[id].status \in FinalStatuses
                => bookings'[id].status = bookings[id].status]_vars

\* Position of the first element of seq that is in set, 0 when there is none.
RECURSIVE FirstIn(_, _, _)
FirstIn(seq, set, i) ==
    IF i > Len(seq) THEN 0
    ELSE IF seq[i] \in set THEN i
    ELSE FirstIn(seq, set, i + 1)

Before(seq, earlier, later) ==
    \A j \in 1..Len(seq) :
        seq[j] = later => \E i \in 1..(j - 1) : seq[i] = earlier

\* C6: the status only moves forward: a COMPLETED booking was IN_PROGRESS
\* before, an IN_PROGRESS booking was PENDING before, and after IN_PROGRESS or
\* a later status it is never PENDING or CONFIRMED again.
C6_StatusMovesForward ==
    \A id \in BookingIds :
        LET h == history[id]
            started == FirstIn(h, {"IN_PROGRESS", "COMPLETED", "CANCELLED", "NO_SHOW"}, 1)
        IN  /\ h[Len(h)] = bookings[id].status
            /\ Before(h, "IN_PROGRESS", "COMPLETED")
            /\ Before(h, "PENDING", "IN_PROGRESS")
            /\ started > 0 =>
                    \A j \in started..Len(h) : h[j] \notin {"PENDING", "CONFIRMED"}

\* A booking went through the whole lifecycle, deposit settled, to COMPLETED.
C6_Witness ==
    \E id \in BookingIds :
        /\ Len(history[id]) >= 4
        /\ bookings[id].status = "COMPLETED"

-----------------------------------------------------------------------------
(* Properties of booking creation *)

C7_Valid(b) ==
    /\ Len(b.customerPhone) = 10
    /\ b.customerPhone[1] = "0"
    /\ \A i \in 1..Len(b.customerPhone) : b.customerPhone[i] \in Digits
    /\ b.roomId \in RoomIds
    /\ Rooms[b.roomId].locationId = b.locationId
    /\ b.guests <= Rooms[b.roomId].capacity
    /\ parseTimeToMinutes(b.startTime) >= 8 * 60
    /\ parseTimeToMinutes(b.endTime) <= 22 * 60
    /\ parseTimeToMinutes(b.endTime) - parseTimeToMinutes(b.startTime) >= 60

\* The booking's start on its own date, read in the server's time zone.
LocalStart(b) == b.date + parseTimeToMinutes(b.startTime) - tz

C8_RejectedCreateWritesNothing ==
    [][<<bookings, payments>>' # <<bookings, payments>> =>
            \A req \in CreateRequests :
                CreateBooking(req) => CreateCode(req) \notin {400, 404, 409}]_vars

\* With a booking stored, requests exist that are answered 400, 404 and 409.
C8_Witness ==
    /\ Len(bookings) = 1
    /\ Len(payments) = 1
    /\ \A code \in {400, 404, 409} : \E req \in CreateRequests : CreateCode(req) = code

-----------------------------------------------------------------------------
(* Properties of check-in and check-out *)

RoomTypes == {"MEETING_LONG", "MEETING_ROUND", "POD_MONO", "POD_MULTI"}

WasCheckedIn(id) == \E i \in 1..Len(history[id]) : history[id][i] = "IN_PROGRESS"

\* C9: a booking never checked in has nerdCoinIssued = 0; after a CHECK_IN
\* nerdCoinIssued is the reward of the service type of the room's type, and
\* nerdCoinIssuedAt is set exactly when that reward is positive.
C9_NerdCoinIssuedAtCheckIn ==
    /\ \A type \in RoomTypes : StatusServiceType(type) = roomTypeToServiceType(type)
    /\ \A id \in BookingIds :
        LET b == bookings[id]
            reward == getNerdCoinReward(roomTypeToServiceType(Rooms[b.roomId].type))
        IN  IF WasCheckedIn(id)
            THEN /\ b.nerdCoinIssued = reward
                 /\ (b.nerdCoinIssuedAt # Null) = (reward > 0)
                 /\ b.nerdCoinIssuedAt \in {Null, b.actualStartTime}
            ELSE b.nerdCoinIssued = 0 /\ b.nerdCoinIssuedAt = Null

\* One booking was checked in with a positive reward.
C9_Witness ==
    \E id \in BookingIds :
        /\ WasCheckedIn(id)
        /\ bookings[id].nerdCoinIssued > 0
        /\ bookings[id].nerdCoinIssuedAt # Null

\* A booking of a room whose service type has no reward was checked in.
C9_WitnessNoReward ==
    \E id \in BookingIds :
        /\ WasCheckedIn(id)
        /\ bookings[id].nerdCoinIssued = 0

\* The surcharge of a check-out at instant `at`.
SurchargeAt(b, at) ==
    calculateSurcharge(roomTypeToServiceType(Rooms[b.roomId].type),
                       at - getBookingDateTime(b.date, b.startTime),
                       getBookingDateTime(b.date, b.endTime)
                            - getBookingDateTime(b.date, b.startTime),
                       b.guests)

\* C10: a checked-out booking has actualAmount = estimatedAmount + surcharge,
\* and remainingAmount = actualAmount - depositAmount when the deposit is
\* PAID_ONLINE or PAID_CASH, and = actualAmount when it is PENDING or WAIVED.
C10_CheckOutAmounts ==
    \A id \in BookingIds :
        LET b == bookings[id] IN
        b.actualEndTime # Null =>
            /\ b.actualAmount = Some(b.estimatedAmount + SurchargeAt(b, b.actualEndTime[1]))
            /\ b.depositStatus \in {"PAID_ONLINE", "PAID_CASH"}
                    => b.remainingAmount = Some(b.actualAmount[1] - b.depositAmount)
            /\ b.depositStatus \in {"PENDING", "WAIVED"}
                    => b.remainingAmount = b.actualAmount

\* A booking with a paid, non-zero deposit was checked out late, with a surcharge.
C10_Witness ==
    \E id \in BookingIds :
        LET b == bookings[id] IN
        /\ b.status = "COMPLETED"
        /\ b.depositStatus = "PAID_CASH"
        /\ b.depositAmount > 0
        /\ b.actualAmount # Null
        /\ b.actualAmount[1] > b.estimatedAmount

\* A booking whose deposit was waived was checked out.
C10_WitnessWaived ==
    \E id \in BookingIds :
        bookings[id].status = "COMPLETED" /\ bookings[id].depositStatus = "WAIVED"

-----------------------------------------------------------------------------
(* Properties of the staff route guard *)

RouteIndexes == 1..Len(PERMISSION_ROUTE_MAP)

MatchingRoutes(path) == {i \in RouteIndexes : RouteMatches(path, RouteOf(i))}

\* The matching entry with the longest route.
MostSpecificRoute(path) ==
    CHOOSE i \in MatchingRoutes(path) :
        \A j \in MatchingRoutes(path) : Len(RouteOf(j)) <= Len(RouteOf(i))

\* C11: for every pathname equal to or below a mapped route, the guard
\* answers with the permission the map assigns to the most specific mapped
\* route matching the pathname.
C11_MostSpecificRouteDecides ==
    [][\A path \in Pathnames :
            (StaffRequest(path) /\ MatchingRoutes(path) # {})
                => allowed' = Some(permissions[PermissionOf(MostSpecificRoute(path))])]_allVars

\* What the guard does: below /admin every pathname gets canViewDashboard.
FirstRouteDecides ==
    [][\A path \in Pathnames :
            (StaffRequest(path) /\ MatchingRoutes(path) # {})
                => allowed' = Some(permissions[PermissionOf(1)])]_allVars

\* The pathname is /admin or lies in an admin section the map names.
HasMappedSection(path) ==
    \/ path = <<"admin">>
    \/ \E i \in RouteIndexes : Len(RouteOf(i)) = 2 /\ RouteMatches(path, RouteOf(i))

\* C12: a pathname whose admin section has no entry in the map is refused
\* for every permissions value.
C12_UnknownRoutesAreBlocked ==
    [][\A path \in Pathnames :
            (StaffRequest(path) /\ ~HasMappedSection(path))
                => allowed' = Some(FALSE)]_allVars

\* Outside /admin every pathname is refused.
OutsideAdminIsBlocked ==
    [][\A path \in Pathnames :
            (StaffRequest(path) /\ (path = <<>> \/ path[1] # "admin"))
                => allowed' = Some(FALSE)]_allVars

-----------------------------------------------------------------------------
(* Properties of booking codes *)

\* The bookings stored for the date of booking id, up to and including it.
RankOnDate(id) == Cardinality({j \in 1..id : bookings[j].date = bookings[id].date})

\* The suffix the k-th booking of a date is to get.
SuffixOf(k) ==
    <<DigitChars[(k \div 100) + 1], DigitChars[((k \div 10) % 10) + 1], DigitChars[(k % 10) + 1]>>

\* C13: the k-th booking created for a date has the suffix k, zero-padded to
\* three digits, and no two stored bookings share a bookingCode.
C13_BookingCodesRunPerDate ==
    /\ \A id \in BookingIds :
            /\ Len(bookings[id].bookingCode[2]) = 3
            /\ bookings[id].bookingCode[2] = SuffixOf(RankOnDate(id))
    /\ \A i \in BookingIds, j \in BookingIds :
            i # j => bookings[i].bookingCode # bookings[j].bookingCode

\* A second booking of a date has the suffix 002 while a date's first has 001.
C13_Witness ==
    /\ \E i \in BookingIds, j \in BookingIds :
            /\ i < j
            /\ bookings[i].date = bookings[j].date
            /\ bookings[i].bookingCode[2] = <<"0", "0", "1">>
            /\ bookings[j].bookingCode[2] = <<"0", "0", "2">>

\* Two bookings of different dates both have the suffix 001.
C13_WitnessTwoDates ==
    \E i \in BookingIds, j \in BookingIds :
        /\ bookings[i].date # bookings[j].date
        /\ bookings[i].bookingCode[2] = <<"0", "0", "1">>
        /\ bookings[j].bookingCode[2] = <<"0", "0", "1">>

-----------------------------------------------------------------------------
(* Properties of location deletion *)

\* Every room's locationId names a stored location.
RoomsReferToLocations == \A room \in DOMAIN rooms : rooms[room] \in locations

\* An admin's DELETE of a location with rooms is answered 400.
LocationWithRoomsIsRefused ==
    \A id \in AdminLocationIds : RoomCount(id) > 0 => DeleteLocationCode("ADMIN", id) = 400

\* A DELETE of a location with rooms changes neither locations nor rooms.
DeleteWithRoomsChangesNothing ==
    \A role \in Roles, id \in AdminLocationIds :
        (DeleteLocation(role, id) /\ RoomCount(id) > 0)
            => UNCHANGED <<locations, rooms>>

\* C14: DELETE on a location that has a room returns 400 and leaves locations
\* and rooms unchanged, and every room's locationId refers to a stored
\* location.
C14_LocationWithRoomsIsKept ==
    /\ [](RoomsReferToLocations /\ LocationWithRoomsIsRefused)
    /\ [][DeleteWithRoomsChangesNothing]_allVars

\* A location without rooms was deleted while another, holding a room, is
\* refused.
C14_Witness ==
    /\ "L3" \notin locations
    /\ \E id \in locations : RoomCount(id) = 1 /\ DeleteLocationCode("ADMIN", id) = 400

-----------------------------------------------------------------------------
(* Properties of the form's time slots *)

FormSteps == {15, 30}

\* The time of day that is m minutes after midnight.
TimeOfMinutes(m) == SlotString(m \div 60, m % 60)

\* 08:00 + k*step for every k that keeps it <= 22:00, ascending.
SlotsUpToClosing(step) ==
    [k \in 1..(((22 * 60 - 8 * 60) \div step) + 1) |-> TimeOfMinutes(8 * 60 + (k - 1) * step)]

\* C15: for step 15 and step 30, generateTimeSlots returns, ascending and
\* without duplicates, exactly the times 08:00 + k*step that are <= 22:00.
C15_TimeSlotsCoverOpeningHours ==
    (slotsDone /\ timeStep \in FormSteps) => slots = SlotsUpToClosing(timeStep)

\* What it returns: those times without the ones between 21:00 and 22:00.
TimeSlotsSkipLastHour ==
    (slotsDone /\ timeStep \in FormSteps) =>
        /\ \A i \in 1..(Len(slots) - 1) :
                parseTimeToMinutes(slots[i]) < parseTimeToMinutes(slots[i + 1])
        /\ {slots[i] : i \in 1..Len(slots)}
                = {t \in {SlotsUpToClosing(timeStep)[k] : k \in DOMAIN SlotsUpToClosing(timeStep)} :
                        parseTimeToMinutes(t) <= 21 * 60 \/ parseTimeToMinutes(t) = 22 * 60}

-----------------------------------------------------------------------------
(* Properties of a new booking *)

PaymentsOf(table, bookingId) == {i \in 1..Len(table) : table[i].bookingId = bookingId}

\* C16: every booking the create endpoint stores starts with status PENDING,
\* depositStatus PENDING and source WEBSITE, and with exactly one payment,
\* of method VNPAY, status PENDING and the booking's depositAmount.
C16_NewBookingDefaults ==
    [][Len(bookings') > Len(bookings) =>
            LET b == bookings'[Len(bookings')] IN
            /\ Len(bookings') = Len(bookings) + 1
            /\ b.status = "PENDING"
            /\ b.depositStatus = "PENDING"
            /\ b.source = "WEBSITE"
            /\ PaymentsOf(payments, b.id) = {}
            /\ Cardinality(PaymentsOf(payments', b.id)) = 1
            /\ \A i \in PaymentsOf(payments', b.id) :
                    /\ payments'[i].method = "VNPAY"
                    /\ payments'[i].status = "PENDING"
                    /\ payments'[i].amount = b.depositAmount]_vars

\* A second booking was stored, with a deposit to pay and its payment.
C16_Witness ==
    /\ Len(bookings) = 2
    /\ bookings[2].status = "PENDING"
    /\ bookings[2].depositAmount > 0
    /\ \E i \in PaymentsOf(payments, 2) : payments[i].amount = bookings[2].depositAmount

-----------------------------------------------------------------------------
(* Properties of blocking and release *)

\* The active stored bookings of the request's room and date that overlap its range.
Blockers(req) ==
    OverlappingBookings(req.roomId, ParseDate(req.date), req.startTime, req.endTime)

\* C17: a create request that passes the validations is answered 409 exactly
\* when a stored booking of its room and date with a status outside CANCELLED
\* and NO_SHOW overlaps its range: a PENDING booking blocks already, and a
\* cancelled one blocks no longer.
C17_BookingBlocksWhileActive ==
    \A req \in Requests :
        CreateCode(req) \in {200, 409} => ((CreateCode(req) = 409) = (Blockers(req) # {}))

\* With the server in UTC it holds.
BookingBlocksWhileActiveInUtc == tz = 0 => C17_BookingBlocksWhileActive

\* With the server in UTC: a cancelled booking is stored and a request for its
\* room, date and range is accepted, and a request that a PENDING booking
\* blocks exists too.
BlockingAndReleaseInUtc ==
    /\ tz = 0
    /\ \E b \in BookingSet, req \in Requests :
            /\ b.status = "CANCELLED"
            /\ req.roomId = b.roomId /\ ParseDate(req.date) = b.date
            /\ req.startTime = b.startTime /\ req.endTime = b.endTime
            /\ CreateCode(req) = 200
    /\ \E b \in BookingSet, req \in Requests :
            /\ b.status = "PENDING"
            /\ req.roomId = b.roomId /\ ParseDate(req.date) = b.date
            /\ Overlaps(req.startTime, req.endTime, b.startTime, b.endTime)
            /\ CreateCode(req) = 409

-----------------------------------------------------------------------------
(* Properties of the surcharge *)

\* Check-in times a booking could have recorded, and none.
CheckInTimes == {Null} \cup {Some(StartNow + k * ClockStep) : k \in 0..3}

\* C18: the surcharge of a check-out is calculateSurcharge of the minutes from
\* the scheduled start to the check-out time and of the scheduled duration,
\* whatever check-in time the booking has recorded.
C18_SurchargeIgnoresCheckInTime ==
    \A id \in BookingIds :
        LET b == bookings[id] IN
        /\ b.status = "IN_PROGRESS" =>
                \A t \in CheckInTimes :
                    Surcharge([b EXCEPT !.actualStartTime = t]) = SurchargeAt(b, now)
        /\ b.status = "COMPLETED" =>
                b.actualAmount[1] - b.estimatedAmount = SurchargeAt(b, b.actualEndTime[1])

\* A booking checked in at another time than its scheduled start was checked
\* out with a surcharge.
C18_Witness ==
    \E id \in BookingIds :
        LET b == bookings[id] IN
        /\ b.status = "COMPLETED"
        /\ b.actualStartTime # Some(getBookingDateTime(b.date, b.startTime))
        /\ b.actualAmount[1] > b.estimatedAmount

\* A booking in progress, checked in early, is past its scheduled end.
C18_WitnessInProgress ==
    \E id \in BookingIds :
        LET b == bookings[id] IN
        /\ b.status = "IN_PROGRESS"
        /\ b.actualStartTime[1] < getBookingDateTime(b.date, b.startTime)
        /\ SurchargeAt(b, now) > 0

-----------------------------------------------------------------------------
(* Properties of concurrent creates *)

\* Two requests for overlapping ranges of the same room and date.
Compete(req1, req2) ==
    /\ req1.roomId = req2.roomId
    /\ req1.date = req2.date
    /\ Overlaps(req1.startTime, req1.endTime, req2.startTime, req2.endTime)

\* C19: of two create requests for overlapping ranges of the same room and
\* date that are handled concurrently, at most one stores a booking.
C19_NoDoubleBookingUnderInterleaving ==
    \A h1 \in Handlers, h2 \in Handlers :
        (/\ h1 # h2
         /\ inflight[h1].pc = "done" /\ inflight[h2].pc = "done"
         /\ Compete(inflight[h1].req[1], inflight[h2].req[1]))
        => ~(inflight[h1].status = 200 /\ inflight[h2].status = 200)

\* A handler that starts after the other has inserted is answered 409.
LateRequestIsRefused ==
    [][\A h \in Handlers, req \in ConcurrentRequests :
            (/\ CheckAvailability(h, req)
             /\ \E b \in BookingSet : Compete(req, [roomId |-> b.roomId, date |-> DateYmd(b.date \div DayMinutes),
                                                    startTime |-> b.startTime, endTime |-> b.endTime]))
                => inflight'[h].status = 409]_allVars

-----------------------------------------------------------------------------
(* Properties of the booking wizard *)

\* Every step shown has the selections of the steps before it.
StepsHaveTheirSelections ==
    /\ currentStep \in 1..4
    /\ currentStep >= 2 => selectedLocation # Null
    /\ currentStep >= 3 => selectedService # Null
    /\ currentStep = 4 => selectedRoom # Null

\* Selecting a location or a service leaves no room selected.
SelectingClearsRoom ==
    (\/ \E id \in WizardLocations : handleLocationSelect(id)
     \/ \E service \in WizardServices : handleServiceSelect(service))
        => selectedRoom' = Null

\* C20: after any sequence of selections and back clicks currentStep is in
\* 1..4, a step from 2 on has a location, a step from 3 on has a service and
\* step 4 has a room; selecting a location or a service clears the room.
C20_WizardStepsHaveTheirSelections ==
    []StepsHaveTheirSelections /\ [][SelectingClearsRoom]_allVars

\* The form is shown; and the wizard is back at step 1 with a room chosen.
C20_Witness ==
    /\ currentStep = 4
    /\ selectedLocation # Null /\ selectedService # Null /\ selectedRoom # Null

C20_WitnessBackAtStart ==
    /\ currentStep = 1
    /\ selectedRoom # Null

-----------------------------------------------------------------------------
(* Properties of the admin calendar *)

CalendarSlots == {calendarTimeSlots[k] : k \in 1..Len(calendarTimeSlots)}
DayBookingSet == {dayBookings[k] : k \in 1..Len(dayBookings)}

\* The rows in which a block for booking i is drawn.
CellsShowing(i) ==
    {timeSlot \in CalendarSlots : RenderedBlock(calendarBookings[i].room, timeSlot) = Some(i)}

\* C21: every booking of the selected day in a listed room is drawn in
\* exactly one cell, and the block drawn in a cell is the booking that
\* starts in that cell.
C21_CalendarShowsEachBookingOnce ==
    /\ \A i \in DayBookingSet : Cardinality(CellsShowing(i)) = 1
    /\ \A roomName \in CalendarRooms, timeSlot \in CalendarSlots :
            RenderedBlock(roomName, timeSlot) # Null
                => calendarBookings[RenderedBlock(roomName, timeSlot)[1]].startTime = timeSlot

\* A booking that starts between two rows and has its room to itself that
\* day is drawn nowhere.
OffHourBookingIsHidden ==
    \A i \in DayBookingSet :
        (/\ TimeMinutes(calendarBookings[i].startTime) # 0
         /\ \A j \in DayBookingSet \ {i} : calendarBookings[j].room # calendarBookings[i].room)
            => CellsShowing(i) = {}

\* Bookings of one room whose ranges do not meet, all starting on the hour.
OnTheHourAndApart ==
    \A i \in DayBookingSet :
        /\ TimeMinutes(calendarBookings[i].startTime) = 0
        /\ \A j \in DayBookingSet \ {i} :
                calendarBookings[i].room = calendarBookings[j].room
                    => ~Overlaps(calendarBookings[i].startTime, calendarBookings[i].endTime,
                                 calendarBookings[j].startTime, calendarBookings[j].endTime)

\* Such bookings are each drawn once, in the cell where they start.
CalendarShowsOnTheHourBookingsOnce ==
    OnTheHourAndApart => C21_CalendarShowsEachBookingOnce

====
